---- MODULE Spec2Model ----
(***************************************************************************)
(* Marketing-Budget-Trainer: the two answer evaluators and the practice    *)
(* screens that call them.                                                 *)
(*                                                                         *)
(*   evaluateAllocation  src/src/components/BudgetPractice.tsx   94-133    *)
(*   calculateDeviation  src/src/components/ProjectionBuilder.tsx 56-59    *)
(*   evaluateAnswers     src/src/components/ProjectionBuilder.tsx 61-117   *)
(*   BudgetPractice      src/src/components/BudgetPractice.tsx   11-381    *)
(*   ProjectionBuilder   src/src/components/ProjectionBuilder.tsx 11-341   *)
(*   App                 src/src/components/ProjectionBuilder.tsx 343-381  *)
(*                                                                         *)
(* Numbers.  The code computes with IEEE doubles.  The model computes with *)
(* exact rationals [num, den]; den = 0 stands for NaN, the value of 0/0.   *)
(* Allocation percentages are counted in half points (an integer h stands  *)
(* for h/2 percent), so every allocation the model draws, and every sum of *)
(* them, is a double without rounding error.  Projection values are        *)
(* integers; the deviation percent is relative, so an integer may stand    *)
(* for any common unit.                                                    *)
(***************************************************************************)
EXTENDS Integers, Sequences, FiniteSets, TLC

VARIABLES
    mode,           \* App.tsx Mode: 'home', 'budget' or 'projection'
    pc,             \* "ready": inputs chosen; "done": the evaluator returned
    userAnswer,     \* evaluateAllocation's userAnswer: channel -> half points
    correctAnswer,  \* evaluateAllocation's correctAnswer (scenario.answer_key)
    result,         \* what evaluateAllocation returned
    userAnswers,    \* ProjectionBuilder state: metric -> text of the input
    answers,        \* currentScenario.answers: metric -> correct value
    feedback,       \* the state feedback of the mounted component
    level,          \* BudgetPractice state level
    loading,        \* state loading: TRUE while the scenario fetch is awaited
    scenarios,      \* state scenarios
    currentScenario, \* state currentScenario
    allocations,    \* BudgetPractice state: channel -> text of the input
    attemptNumber,  \* state attemptNumber
    failedAttempts, \* ProjectionBuilder state failedAttempts
    showHints,      \* ProjectionBuilder state showHints: metric -> BOOLEAN
    pending,        \* submissions awaiting the answer to their insert
    insertCalls,    \* the progress records handed to insert, in order
    shown,          \* the submission whose feedback is displayed, 0 for none
    selectedAt,     \* how many records insert had been handed when selectScenario ran
    event           \* the handler or continuation that ran last

\* the variables of the evaluators alone
evalVars == <<mode, pc, userAnswer, correctAnswer, result, userAnswers, answers, feedback>>

\* the variables added by the screens
appVars == <<level, loading, scenarios, currentScenario, allocations, attemptNumber,
             failedAttempts, showHints, pending, insertCalls, shown, selectedAt,
             event>>

vars == <<evalVars, appVars>>

---------------------------------------------------------------------------
(* Bounds of the model *)

MaxChannels == 2    \* channels of an allocation answer key: 0..MaxChannels
MaxMetrics == 2     \* metrics of a projection answer key: 0..MaxMetrics
MaxManyMetrics == 10 \* metrics of a wide projection answer key: 1..MaxManyMetrics

---------------------------------------------------------------------------
(* JavaScript numbers *)

\* The result of Math.round(NaN); no score and no input of the model equals it.
NaN == 0 - 999999

Frac(n, d) == [num |-> n, den |-> d]

IsNaN(f) == f.den = 0

Abs(i) == IF i < 0 THEN 0 - i ELSE i

\* p percent in half points
Pct(p) == 2 * p

\* a number of half points as a rational number of percentage points
FromHalves(h) == Frac(h, 2)

\* f / k for an integer k >= 0; 0 / 0 is NaN
DivInt(f, k) == Frac(f.num, f.den * k)

\* f * k
MulInt(f, k) == Frac(f.num * k, f.den)

\* k - f
IntMinus(k, f) == Frac(k * f.den - f.num, f.den)

\* f >= k, f <= k, f = k: every comparison with NaN is false
GE(f, k) == ~IsNaN(f) /\ f.num >= k * f.den
LE(f, k) == ~IsNaN(f) /\ f.num <= k * f.den
EQ(f, k) == ~IsNaN(f) /\ f.num = k * f.den

\* Math.max(0, f): NaN if f is NaN
MathMax0(f) == IF IsNaN(f) THEN f ELSE IF f.num < 0 THEN Frac(0, 1) ELSE f

\* Math.round(f): the nearest integer, a tie going up; NaN if f is NaN
MathRound(f) == IF IsNaN(f) THEN NaN ELSE (2 * f.num + f.den) \div (2 * f.den)

\* Number.prototype.toFixed(0) of a non-negative f: the nearest integer, a tie
\* taking the larger one
ToFixed0(f) == (2 * f.num + f.den) \div (2 * f.den)

\* x || 0 for a number x: 0 and NaN are falsy
OrZero(x) == IF x = NaN \/ x = 0 THEN 0 ELSE x

---------------------------------------------------------------------------
(* evaluateAllocation, BudgetPractice.tsx 94-133 *)

\* line 103: userAnswer[channel] || 0
userValueOf(ua, channel) ==
    IF channel \in DOMAIN ua THEN OrZero(ua[channel]) ELSE 0

\* deviationOf without Math.abs: the signed difference
deviationOf_Signed(ua, ca, channel) == userValueOf(ua, channel) - ca[channel]

\* line 105: Math.abs(userValue - correctValue), in half points
deviationOf(ua, ca, channel) == Abs(userValueOf(ua, channel) - ca[channel])

\* lines 98, 102, 106: totalDeviation accumulated over Object.keys(correctAnswer)
RECURSIVE accumulate(_, _, _)
accumulate(ua, ca, keys) ==
    IF keys = {} THEN 0
    ELSE LET channel == CHOOSE c \in keys : TRUE
         IN deviationOf(ua, ca, channel) + accumulate(ua, ca, keys \ {channel})

totalDeviation(ua, ca) == FromHalves(accumulate(ua, ca, DOMAIN ca))

\* channelFeedbackOf with the test for deviation <= 5 ahead of the test for 0
channelFeedbackOf_CloseFirst(userValue, correctValue) ==
    LET deviation == FromHalves(Abs(userValue - correctValue))
    IN IF LE(deviation, 5) THEN <<"Very close! Minor adjustment could optimize this.">>
       ELSE IF EQ(deviation, 0) THEN <<"Perfect allocation!">>
       ELSE IF LE(deviation, 10) THEN
           <<"Consider ", IF userValue > correctValue THEN "decreasing" ELSE "increasing",
             " by about ", ToFixed0(deviation), "%.">>
       ELSE
           <<IF userValue > correctValue THEN "Over" ELSE "Under",
             "-allocated by ", ToFixed0(deviation), "%. This channel ",
             IF userValue > correctValue THEN "may be too expensive" ELSE "offers better efficiency",
             ".">>

\* channelFeedbackOf with the bands closed on the other side: deviation < 5 and
\* deviation < 10
channelFeedbackOf_StrictBands(userValue, correctValue) ==
    LET deviation == FromHalves(Abs(userValue - correctValue))
    IN IF EQ(deviation, 0) THEN <<"Perfect allocation!">>
       ELSE IF ~GE(deviation, 5) THEN <<"Very close! Minor adjustment could optimize this.">>
       ELSE IF ~GE(deviation, 10) THEN
           <<"Consider ", IF userValue > correctValue THEN "decreasing" ELSE "increasing",
             " by about ", ToFixed0(deviation), "%.">>
       ELSE
           <<IF userValue > correctValue THEN "Over" ELSE "Under",
             "-allocated by ", ToFixed0(deviation), "%. This channel ",
             IF userValue > correctValue THEN "may be too expensive" ELSE "offers better efficiency",
             ".">>

\* lines 108-116: the feedback of one channel; a template literal is the
\* sequence of its parts
channelFeedbackOf(userValue, correctValue) ==
    LET deviation == FromHalves(Abs(userValue - correctValue))
    IN IF EQ(deviation, 0) THEN <<"Perfect allocation!">>
       ELSE IF LE(deviation, 5) THEN <<"Very close! Minor adjustment could optimize this.">>
       ELSE IF LE(deviation, 10) THEN
           <<"Consider ", IF userValue > correctValue THEN "decreasing" ELSE "increasing",
             " by about ", ToFixed0(deviation), "%.">>
       ELSE
           <<IF userValue > correctValue THEN "Over" ELSE "Under",
             "-allocated by ", ToFixed0(deviation), "%. This channel ",
             IF userValue > correctValue THEN "may be too expensive" ELSE "offers better efficiency",
             ".">>

\* avgDeviation dividing by the number of the user's entries
avgDeviation_PerUserEntry(ua, ca) == DivInt(totalDeviation(ua, ca), Cardinality(DOMAIN ua))

\* line 119
avgDeviation(ua, ca) == DivInt(totalDeviation(ua, ca), Cardinality(DOMAIN ca))

\* rawScore with a penalty of 1 point per point of average deviation
rawScore_Penalty1(ua, ca) == MathMax0(IntMinus(100, MulInt(avgDeviation(ua, ca), 1)))

\* rawScore without the floor at 0
rawScore_NoFloor(ua, ca) == IntMinus(100, MulInt(avgDeviation(ua, ca), 2))

\* line 120: the score before rounding
rawScore(ua, ca) == MathMax0(IntMinus(100, MulInt(avgDeviation(ua, ca), 2)))

\* lines 122-130: the message pushed for a score
messageOf(score) ==
    IF GE(score, 90) THEN "Excellent work! Your allocation is nearly optimal."
    ELSE IF GE(score, 75) THEN "Good job! A few tweaks could improve efficiency."
    ELSE IF GE(score, 60) THEN "Not bad, but there is room for improvement in channel selection."
    ELSE "Keep practicing! Consider the relative efficiency of each channel."

\* line 132: score: Math.round(score)
roundedScore(ua, ca) == MathRound(rawScore(ua, ca))

evaluateAllocation(ua, ca) ==
    LET score == rawScore(ua, ca)
    IN [score |-> roundedScore(ua, ca),
        messages |-> <<messageOf(score)>>,
        channelFeedback |->
            [channel \in DOMAIN ca |-> channelFeedbackOf(userValueOf(ua, channel), ca[channel])]]

---------------------------------------------------------------------------
(* calculateDeviation and the evaluation in evaluateAnswers,
   ProjectionBuilder.tsx 56-94 *)

\* The text of a number input: "" is the empty sequence, a numeral is the
\* one-element sequence of the number it denotes.
EmptyText == <<>>
Numeral(n) == <<n>>

\* parseFloat(text): NaN for "" and for a missing entry (undefined)
parseFloat(text) == IF text = EmptyText THEN NaN ELSE text[1]

\* |f|
FracAbs(f) == Frac(Abs(f.num), Abs(f.den))

\* calculateDeviation answering 0 whenever correctValue is 0
calculateDeviation_ZeroIsZero(userValue, correctValue) ==
    IF correctValue = 0 THEN Frac(0, 1)
    ELSE MulInt(FracAbs(Frac(userValue - correctValue, correctValue)), 100)

\* lines 56-59
calculateDeviation(userValue, correctValue) ==
    IF correctValue = 0 THEN (IF userValue = 0 THEN Frac(0, 1) ELSE Frac(100, 1))
    ELSE MulInt(FracAbs(Frac(userValue - correctValue, correctValue)), 100)

\* line 68: parseFloat(userAnswers[key]) || 0
userValueOfMetric(uas, key) ==
    OrZero(parseFloat(IF key \in DOMAIN uas THEN uas[key] ELSE EmptyText))

\* isCorrect with the boundary excluded: deviation < 10
isCorrectOf_Strict(deviation) == ~IsNaN(deviation) /\ deviation.num < 10 * deviation.den

\* line 70
isCorrectOf(deviation) == LE(deviation, 10)

\* contributionOf with the band boundaries excluded: <, not <=
contributionOf_Strict(deviation) ==
    IF EQ(deviation, 0) THEN 100
    ELSE IF ~GE(deviation, 5) THEN 95
    ELSE IF ~GE(deviation, 10) THEN 85
    ELSE IF ~GE(deviation, 20) THEN 70
    ELSE IF ~GE(deviation, 30) THEN 50
    ELSE 25

\* contributionOf adding nothing for a deviation above 30
contributionOf_NothingAbove30(deviation) ==
    IF EQ(deviation, 0) THEN 100
    ELSE IF LE(deviation, 5) THEN 95
    ELSE IF LE(deviation, 10) THEN 85
    ELSE IF LE(deviation, 20) THEN 70
    ELSE IF LE(deviation, 30) THEN 50
    ELSE 0

\* lines 79-91: what one metric adds to totalScore
contributionOf(deviation) ==
    IF EQ(deviation, 0) THEN 100
    ELSE IF LE(deviation, 5) THEN 95
    ELSE IF LE(deviation, 10) THEN 85
    ELSE IF LE(deviation, 20) THEN 70
    ELSE IF LE(deviation, 30) THEN 50
    ELSE 25

\* lines 67-77: results[key]
resultOf(uas, ans, key) ==
    LET userValue == userValueOfMetric(uas, key)
        deviation == calculateDeviation(userValue, ans[key])
    IN [correct |-> ans[key], user |-> userValue,
        isCorrect |-> isCorrectOf(deviation), deviation |-> deviation]

\* lines 65, 67, 79-91: totalScore accumulated over Object.entries(answers)
RECURSIVE totalScore(_, _, _)
totalScore(uas, ans, keys) ==
    IF keys = {} THEN 0
    ELSE LET key == CHOOSE k \in keys : TRUE
         IN contributionOf(resultOf(uas, ans, key).deviation)
                + totalScore(uas, ans, keys \ {key})

\* line 94
avgScore(uas, ans) ==
    MathRound(DivInt(Frac(totalScore(uas, ans, DOMAIN ans), 1), Cardinality(DOMAIN ans)))

\* lines 64-94 and 112: the value evaluateAnswers hands to setFeedback
evaluateAnswers(uas, ans) ==
    [score |-> avgScore(uas, ans),
     results |-> [key \in DOMAIN ans |-> resultOf(uas, ans, key)]]


\* x >= k and x < k for a number x that may be NaN: every comparison with NaN is false
NumGE(x, k) == x # NaN /\ x >= k
NumLT(x, k) == x # NaN /\ x < k

\* s when cond holds: what {cond && s} renders is s, or nothing
Rendered(cond, s) == IF cond THEN <<s>> ELSE <<>>

\* narrativeOf with the second band open at 75
narrativeOf_Above75(score) ==
    Rendered(NumGE(score, 90), "Excellent work! Your calculations are spot on.")
    \o Rendered(NumGE(score, 76) /\ NumLT(score, 90),
                "Great job! Minor adjustments in your calculations.")
    \o Rendered(NumGE(score, 60) /\ NumLT(score, 75),
                "Good effort. Review the formulas and try again.")
    \o Rendered(NumLT(score, 60),
                "Keep practicing! Focus on understanding each metric formula.")

\* ProjectionBuilder.tsx 311-316: the strings the paragraph under the score renders
narrativeOf(score) ==
    Rendered(NumGE(score, 90), "Excellent work! Your calculations are spot on.")
    \o Rendered(NumGE(score, 75) /\ NumLT(score, 90),
                "Great job! Minor adjustments in your calculations.")
    \o Rendered(NumGE(score, 60) /\ NumLT(score, 75),
                "Good effort. Review the formulas and try again.")
    \o Rendered(NumLT(score, 60),
                "Keep practicing! Focus on understanding each metric formula.")

---------------------------------------------------------------------------
(* The inputs drawn *)

Channels(n) == 1..n
Metrics(m) == 1..m

\* answer_key values: 20, 30 and 50 percent
KeyValues == {Pct(20), Pct(30), Pct(50)}

\* The answer key of the first seeded scenario (migration, line 125):
\* Google Ads 50, LinkedIn Ads 30, Email Marketing 20
SeededKey == <<Pct(50), Pct(30), Pct(20)>>

\* allocations: the key's values, 0, the values of the spec's second concrete case
\* (60, 25, 15), a negative one, one above 100, 30.5, and 69 and 11 (with 20 they
\* sum to 100 and lie 38 points off the seeded key)
UserValues ==
    KeyValues \cup {Pct(0), Pct(60), Pct(25), Pct(15), Pct(0 - 10), Pct(120), Pct(30) + 1,
                    Pct(69), Pct(11)}

\* the allocation answer keys drawn: every key of at most MaxChannels channels
\* over KeyValues, and the seeded key
AnswerKeys == UNION {[Channels(n) -> KeyValues] : n \in 0..MaxChannels} \cup {SeededKey}

\* the user allocations drawn for a key: any subset of its channels, any values
UserAllocations(ca) == UNION {[present -> UserValues] : present \in SUBSET DOMAIN ca}

\* projection answers: 0, a negative value, 20 and 50
AnswerValues == {0 - 20, 0, 20, 50}

\* the texts entered: empty, the answers, and values 4, 5, 10, 20 and 30 percent
\* off an answer
Texts == {EmptyText} \cup {Numeral(v) : v \in AnswerValues \cup {21, 22, 24, 26, 52, 55}}

NoResult == [score |-> NaN, messages |-> <<>>, channelFeedback |-> <<>>]
NoFeedback == [score |-> NaN, results |-> <<>>]

\* null
Null == [null |-> TRUE]

\* the null of the state level, whose other values are strings
NoLevel == "null"

\* the state of a component at its first render (useState initial values; loading is
\* false in BudgetPractice and set by ProjectionBuilder's mount), no submission made
AppIdle ==
    /\ level = NoLevel
    /\ loading = FALSE
    /\ scenarios = <<>>
    /\ currentScenario = Null
    /\ allocations = <<>>
    /\ attemptNumber = 1
    /\ failedAttempts = 0
    /\ showHints = <<>>
    /\ pending = {}
    /\ insertCalls = <<>>
    /\ shown = 0
    /\ selectedAt = 0
    /\ event = <<"init">>

InitBudget ==
    /\ mode = "budget"
    /\ pc = "ready"
    /\ correctAnswer \in AnswerKeys
    /\ userAnswer \in UserAllocations(correctAnswer)
    /\ result = NoResult
    /\ userAnswers = <<>>
    /\ answers = <<>>
    /\ feedback = NoFeedback
    /\ AppIdle

InitProjection ==
    /\ mode = "projection"
    /\ pc = "ready"
    /\ \E m \in 0..MaxMetrics :
        /\ answers \in [Metrics(m) -> AnswerValues]
        /\ userAnswers \in [Metrics(m) -> Texts]
    /\ feedback = NoFeedback
    /\ userAnswer = <<>>
    /\ correctAnswer = <<>>
    /\ result = NoResult
    /\ AppIdle

Init == InitBudget \/ InitProjection

\* validateAndSubmit line 79: result = evaluateAllocation(userAllocations, answer_key)
ApplyEvaluateAllocation ==
    /\ mode = "budget"
    /\ pc = "ready"
    /\ result' = evaluateAllocation(userAnswer, correctAnswer)
    /\ pc' = "done"
    /\ UNCHANGED <<mode, userAnswer, correctAnswer, userAnswers, answers, feedback>>
    /\ UNCHANGED appVars

\* evaluateAnswers lines 64-94 and 112: setFeedback({ score: avgScore, results })
ApplyEvaluateAnswers ==
    /\ mode = "projection"
    /\ pc = "ready"
    /\ feedback' = evaluateAnswers(userAnswers, answers)
    /\ pc' = "done"
    /\ UNCHANGED <<mode, userAnswer, correctAnswer, result, userAnswers, answers>>
    /\ UNCHANGED appVars

Next == ApplyEvaluateAllocation \/ ApplyEvaluateAnswers

\* The two evaluators applied to every input drawn
EvalSpec == Init /\ [][Next]_vars

\* a channel name that no answer key has
ExtraChannel == 0

\* the values entered for the channel that is not in the key
ExtraValues == {Pct(0), Pct(30), Pct(120)}

\* the user allocations drawn for a key, with and without an entry for ExtraChannel
AllocationsWithExtra(ca) ==
    UserAllocations(ca) \cup
    {[c \in DOMAIN ua \cup {ExtraChannel} |-> IF c = ExtraChannel THEN v ELSE ua[c]] :
        ua \in UserAllocations(ca), v \in ExtraValues}

InitExtra ==
    /\ mode = "budget"
    /\ pc = "ready"
    /\ correctAnswer \in AnswerKeys
    /\ userAnswer \in AllocationsWithExtra(correctAnswer)
    /\ result = NoResult
    /\ userAnswers = <<>>
    /\ answers = <<>>
    /\ feedback = NoFeedback
    /\ AppIdle

\* evaluateAllocation applied to allocations that may carry a channel unknown to the key
ExtraSpec == InitExtra /\ [][ApplyEvaluateAllocation]_vars

\* the texts entered for most metrics of a wide key, whose answers are all 20: the
\* answer and a value 5 percent off
ManyMetricsTexts == {Numeral(20), Numeral(21)}

\* the user answers drawn for a wide key of m metrics: any of Texts for the first
\* metric and any of ManyMetricsTexts for the others, or one of Texts for all
ManyMetricsAnswers(m) ==
    {[key \in Metrics(m) |-> IF key = 1 THEN first ELSE others[key]] :
        first \in Texts, others \in [Metrics(m) \ {1} -> ManyMetricsTexts]}
    \cup {[key \in Metrics(m) |-> text] : text \in Texts}

InitManyMetrics ==
    /\ mode = "projection"
    /\ pc = "ready"
    /\ \E m \in 1..MaxManyMetrics :
        /\ answers = [key \in Metrics(m) |-> 20]
        /\ userAnswers \in ManyMetricsAnswers(m)
    /\ feedback = NoFeedback
    /\ userAnswer = <<>>
    /\ correctAnswer = <<>>
    /\ result = NoResult
    /\ AppIdle

\* evaluateAnswers applied to answer keys of up to MaxManyMetrics metrics
ManyMetricsSpec == InitManyMetrics /\ [][ApplyEvaluateAnswers]_vars

---------------------------------------------------------------------------
(* Claims about evaluateAllocation, checked under EvalSpec *)

BudgetDone == mode = "budget" /\ pc = "done"

NumChannels == Cardinality(DOMAIN correctAnswer)

\* The user's value of a channel as the claims word it: 0 for a missing channel
ClaimedUserValue(channel) ==
    IF channel \in DOMAIN userAnswer THEN userAnswer[channel] ELSE 0

\* The sum over the key's channels of |userValue - correctValue|, in half points
RECURSIVE SumAbsDiff(_)
SumAbsDiff(keys) ==
    IF keys = {} THEN 0
    ELSE LET c == CHOOSE k \in keys : TRUE
             d == ClaimedUserValue(c) - correctAnswer[c]
         IN (IF d < 0 THEN 0 - d ELSE d) + SumAbsDiff(keys \ {c})

\* r = round(100 - 2 * avgDeviation), with avgDeviation = (T / 2) / n percent for
\* T half points over n channels: r - 1/2 <= 100 - T / n < r + 1/2
IsRoundedPenalty(r, T, n) ==
    /\ (2 * r - 1) * n <= 2 * (100 * n - T)
    /\ 2 * (100 * n - T) < (2 * r + 1) * n

\* max(0, round(100 - 2 * avgDeviation)) = s: either s >= 1 is the rounded
\* penalty, or s = 0 and the penalty rounds to 0 or less (it is below 1/2)
IsClaimedScore(s, T, n) ==
    \/ s >= 1 /\ IsRoundedPenalty(s, T, n)
    \/ s = 0 /\ 2 * (100 * n - T) < n

\* C1: for every non-empty answer key and every user allocation the returned score
\* is max(0, round(100 - 2 * avgDeviation)), avgDeviation being the sum over the
\* key's channels of |userValue - correctValue| divided by the number of channels,
\* a missing channel counting as 0.
C1_ScoreFormula ==
    (BudgetDone /\ NumChannels > 0) =>
        IsClaimedScore(result.score, SumAbsDiff(DOMAIN correctAnswer), NumChannels)

\* C1 witness: key {50, 30, 20} with user {60, 25, 15} has been scored 87.
C1_Witness ==
    /\ BudgetDone
    /\ correctAnswer = <<Pct(50), Pct(30), Pct(20)>>
    /\ userAnswer = <<Pct(60), Pct(25), Pct(15)>>
    /\ result.score = 87

\* The message the claims assign to an integer score
ClaimedMessage(s) ==
    IF s >= 90 THEN "Excellent work! Your allocation is nearly optimal."
    ELSE IF s >= 75 THEN "Good job! A few tweaks could improve efficiency."
    ELSE IF s >= 60 THEN "Not bad, but there is room for improvement in channel selection."
    ELSE "Keep practicing! Consider the relative efficiency of each channel."

\* C2: for every input (here: every non-empty answer key) evaluateAllocation returns
\* exactly one top-level message, and it is the message of the band of the score
\* returned: >= 90 Excellent, 75..89 Good job, 60..74 Not bad, < 60 Keep practicing.
C2_MessageOfReturnedScore ==
    (BudgetDone /\ NumChannels > 0) =>
        result.messages = <<ClaimedMessage(result.score)>>

\* C3: for every non-empty answer key, a user allocation equal to the key is given
\* score 100, 'Perfect allocation!' for every channel and the 'Excellent work!'
\* message.
C3_PerfectAllocation ==
    (BudgetDone /\ NumChannels > 0 /\ userAnswer = correctAnswer) =>
        /\ result.score = 100
        /\ DOMAIN result.channelFeedback = DOMAIN correctAnswer
        /\ \A channel \in DOMAIN correctAnswer :
               result.channelFeedback[channel] = <<"Perfect allocation!">>
        /\ result.messages = <<"Excellent work! Your allocation is nearly optimal.">>

\* C3 witness: the seeded key {50, 30, 20} answered with itself has been scored.
C3_Witness ==
    /\ BudgetDone
    /\ correctAnswer = SeededKey
    /\ userAnswer = correctAnswer
    /\ result.score = 100

\* C8: for every non-empty answer key and every user allocation, negative values
\* and values above 100 included, the returned score is an integer in 0..100.
C8_ScoreInRange ==
    (BudgetDone /\ NumChannels > 0) => result.score \in 0..100

\* C8 witness: a negative allocation and one above 100 have been scored, the
\* penalty exceeds 100 and the score is floored at 0.
C8_Witness ==
    /\ BudgetDone
    /\ \E c \in DOMAIN userAnswer : userAnswer[c] < 0
    /\ \E c \in DOMAIN userAnswer : userAnswer[c] > Pct(100)
    /\ SumAbsDiff(DOMAIN correctAnswer) > 100 * NumChannels
    /\ result.score = 0

---------------------------------------------------------------------------
(* Claims about the projection evaluation, checked under EvalSpec *)

ProjectionDone == mode = "projection" /\ pc = "done"

NumMetrics == Cardinality(DOMAIN answers)

\* The number a text stands for as the claims word it: 0 for an empty entry
ClaimedNumber(text) == IF text = <<>> THEN 0 ELSE text[1]

\* The submission repeats the answer key: every metric's text is the numeral of
\* the key's value
SubmissionEqualsKey ==
    \A key \in DOMAIN answers : userAnswers[key] = <<answers[key]>>

\* C4: for all projection answer keys, a submission whose value for every metric
\* equals the key's value is given score 100, and every metric has isCorrect = true
\* and deviation = 0.
C4_PerfectProjection ==
    (ProjectionDone /\ SubmissionEqualsKey) =>
        /\ feedback.score = 100
        /\ \A key \in DOMAIN answers :
               /\ feedback.results[key].isCorrect
               /\ feedback.results[key].deviation.num = 0
               /\ feedback.results[key].deviation.den > 0

\* The contribution the claims assign to a deviation percent d = num / den
ClaimedContribution(d) ==
    IF d.num = 0 THEN 100
    ELSE IF d.num <= 5 * d.den THEN 95
    ELSE IF d.num <= 10 * d.den THEN 85
    ELSE IF d.num <= 20 * d.den THEN 70
    ELSE IF d.num <= 30 * d.den THEN 50
    ELSE 25

RECURSIVE SumClaimedContributions(_)
SumClaimedContributions(keys) ==
    IF keys = {} THEN 0
    ELSE LET k == CHOOSE key \in keys : TRUE
         IN ClaimedContribution(feedback.results[k].deviation)
                + SumClaimedContributions(keys \ {k})

\* s = round(S / m), a tie going up: s - 1/2 <= S / m < s + 1/2
IsRoundedMean(s, S, m) ==
    /\ (2 * s - 1) * m <= 2 * S
    /\ 2 * S < (2 * s + 1) * m

\* C5: each metric contributes by the band of its deviation percent d (0 -> 100,
\* (0,5] -> 95, (5,10] -> 85, (10,20] -> 70, (20,30] -> 50, above 30 -> 25) and the
\* score is round(sum of the contributions / number of metrics), for a key with at
\* least one metric.
C5_BandsAndMean ==
    (ProjectionDone /\ NumMetrics > 0) =>
        IsRoundedMean(feedback.score, SumClaimedContributions(DOMAIN answers), NumMetrics)

\* C5 witness: two metrics, one 5 percent off (95) and one exact (100), have been
\* scored round(97.5) = 98.
C5_Witness ==
    /\ ProjectionDone
    /\ answers = <<20, 20>>
    /\ userAnswers = << <<21>>, <<20>> >>
    /\ feedback.results[1].deviation.num = 5 * feedback.results[1].deviation.den
    /\ feedback.score = 98

\* C6: calculateDeviation(userValue, correctValue) is 0 for correctValue = 0 and
\* userValue = 0, exactly 100 for correctValue = 0 and userValue # 0, and otherwise
\* |userValue - correctValue| / |correctValue| * 100, also for a negative
\* correctValue.
C6_Deviation ==
    ProjectionDone =>
        \A key \in DOMAIN answers :
            LET r == feedback.results[key]
                d == r.deviation
                diff == IF r.user >= r.correct THEN r.user - r.correct ELSE r.correct - r.user
                size == IF r.correct >= 0 THEN r.correct ELSE 0 - r.correct
            IN /\ r.correct = answers[key]
               /\ r.user = ClaimedNumber(userAnswers[key])
               /\ d.den > 0
               /\ (r.correct = 0 /\ r.user = 0) => d.num = 0
               /\ (r.correct = 0 /\ r.user # 0) => d.num = 100 * d.den
               /\ r.correct # 0 => d.num * size = 100 * diff * d.den

\* C6 witness: a metric with correct value 0 and a non-zero entry has deviation 100,
\* and a metric with a negative correct value and a different entry has been
\* evaluated.
C6_Witness ==
    /\ ProjectionDone
    /\ \E key \in DOMAIN answers :
           /\ answers[key] = 0
           /\ feedback.results[key].user # 0
           /\ feedback.results[key].deviation = Frac(100, 1)
    /\ \E key \in DOMAIN answers :
           /\ answers[key] < 0
           /\ feedback.results[key].user > 0
           /\ feedback.results[key].deviation.num > 100 * feedback.results[key].deviation.den

\* C7: isCorrect is true exactly when the deviation percent is <= 10, the boundary
\* included, hence exactly when the metric's contribution is at least 85.
C7_IsCorrect ==
    ProjectionDone =>
        \A key \in DOMAIN answers :
            LET r == feedback.results[key]
            IN /\ r.isCorrect <=> (r.deviation.num <= 10 * r.deviation.den)
               /\ r.isCorrect <=> (contributionOf(r.deviation) >= 85)
               /\ NumMetrics = 1 => (r.isCorrect <=> (feedback.score >= 85))

\* C7 witness: correct 50 with user 55 has deviation exactly 10, isCorrect = true
\* and, being the only metric, score 85.
C7_Witness ==
    /\ ProjectionDone
    /\ answers = <<50>>
    /\ userAnswers = << <<55>> >>
    /\ feedback.results[1].deviation.num = 10 * feedback.results[1].deviation.den
    /\ feedback.results[1].isCorrect
    /\ feedback.score = 85

\* C9: both evaluators return a result whose score is an integer in 0..100, for
\* every answer key, one with no entries included.
C9_ScoreAlwaysInRange ==
    /\ BudgetDone => result.score \in 0..100
    /\ ProjectionDone => feedback.score \in 0..100

---------------------------------------------------------------------------
(* Monotonicity, checked under EvalSpec *)

\* the allocation with one channel's entry replaced
WithAllocation(channel, v) ==
    [c \in DOMAIN userAnswer \cup {channel} |-> IF c = channel THEN v ELSE userAnswer[c]]

\* the absolute deviation, in half points, of the value v from the key's value
ClaimedDeviation(v, channel) ==
    IF v >= correctAnswer[channel] THEN v - correctAnswer[channel]
    ELSE correctAnswer[channel] - v

\* the deviation percent of the number u from the correct value c, times |c| (times
\* 1 when c = 0): enough to compare two deviations from the same c
ClaimedDeviationPercent(u, c) ==
    IF c = 0 THEN (IF u = 0 THEN 0 ELSE 100)
    ELSE 100 * (IF u >= c THEN u - c ELSE c - u)

\* C10: with all other channels (metrics) held fixed, raising one channel's absolute
\* deviation (one metric's deviation percent) never raises the allocation score (the
\* projection score).
C10_Monotone ==
    /\ (BudgetDone /\ NumChannels > 0) =>
           \A channel \in DOMAIN correctAnswer : \A v \in UserValues :
               ClaimedDeviation(v, channel)
                       >= ClaimedDeviation(ClaimedUserValue(channel), channel)
                   => roundedScore(WithAllocation(channel, v), correctAnswer)
                          <= result.score
    /\ (ProjectionDone /\ NumMetrics > 0) =>
           \A key \in DOMAIN answers : \A text \in Texts :
               ClaimedDeviationPercent(ClaimedNumber(text), answers[key])
                       >= ClaimedDeviationPercent(ClaimedNumber(userAnswers[key]), answers[key])
                   => avgScore([userAnswers EXCEPT ![key] = text], answers)
                          <= feedback.score

\* C10 witness: on the seeded key {50, 30, 20}, {60, 25, 15} has been scored 87, and
\* an allocation further off in the first channel scores strictly less.
C10_Witness ==
    /\ BudgetDone
    /\ correctAnswer = SeededKey
    /\ userAnswer = <<Pct(60), Pct(25), Pct(15)>>
    /\ result.score = 87
    /\ \E v \in UserValues :
           /\ ClaimedDeviation(v, 1) > ClaimedDeviation(userAnswer[1], 1)
           /\ roundedScore(WithAllocation(1, v), correctAnswer) < result.score

---------------------------------------------------------------------------
(* Per-channel feedback, checked under EvalSpec *)

\* N is the deviation of h half points rounded to a whole number
IsRoundedDeviation(N, h) == 2 * N - 1 <= h /\ h <= 2 * N + 1

\* The feedback the claim words for the user's value u and the key's value c (half
\* points), the lower band winning
IsClaimedFeedback(fb, u, c) ==
    LET d == IF u >= c THEN u - c ELSE c - u
    IN \/ d = 0 /\ fb = <<"Perfect allocation!">>
       \/ 0 < d /\ d <= Pct(5)
            /\ fb = <<"Very close! Minor adjustment could optimize this.">>
       \/ Pct(5) < d /\ d <= Pct(10) /\ Len(fb) = 5
            /\ fb[1] = "Consider " /\ fb[3] = " by about " /\ fb[5] = "%."
            /\ IsRoundedDeviation(fb[4], d)
            /\ (fb[2] = "decreasing" <=> u > c)
            /\ (fb[2] = "increasing" <=> u < c)
       \/ d > Pct(10) /\ Len(fb) = 6
            /\ fb[2] = "-allocated by " /\ fb[4] = "%. This channel "
            /\ IsRoundedDeviation(fb[3], d)
            /\ (fb[1] = "Over" <=> u > c)
            /\ (fb[1] = "Under" <=> u < c)

\* C11: every channel of the key, and no other, gets one feedback string, chosen by
\* the absolute deviation d with the lower band winning: 'Perfect allocation!' for
\* d = 0, 'Very close! ...' for 0 < d <= 5, 'Consider decreasing/increasing by about
\* N%' for 5 < d <= 10, 'Over-/Under-allocated by N%' for d > 10; 'decreasing' and
\* 'Over' exactly when the user's value is above the key's, 'increasing' and 'Under'
\* exactly when it is below.
C11_ChannelFeedback ==
    BudgetDone =>
        /\ DOMAIN result.channelFeedback = DOMAIN correctAnswer
        /\ \A channel \in DOMAIN correctAnswer :
               IsClaimedFeedback(result.channelFeedback[channel],
                                 ClaimedUserValue(channel), correctAnswer[channel])

\* C11 witness: an evaluated allocation with one channel exactly 5 points above its
\* key value ('Very close') and one exactly 10 points below ('Consider increasing').
C11_Witness ==
    /\ BudgetDone
    /\ \E a, b \in DOMAIN correctAnswer :
           /\ ClaimedUserValue(a) = correctAnswer[a] + Pct(5)
           /\ result.channelFeedback[a] = <<"Very close! Minor adjustment could optimize this.">>
           /\ ClaimedUserValue(b) = correctAnswer[b] - Pct(10)
           /\ result.channelFeedback[b] = <<"Consider ", "increasing", " by about ", 10, "%.">>

---------------------------------------------------------------------------
(* The key's channels are authoritative, checked under ExtraSpec *)

\* the user's allocation without the entries whose channel is not in the key
WithoutExtraEntries ==
    [c \in DOMAIN userAnswer \cap DOMAIN correctAnswer |-> userAnswer[c]]

\* C13: the result of evaluateAllocation is the result for the user's allocation
\* stripped of every entry whose channel is not in the key (so adding, removing or
\* changing such entries changes neither score, message nor channel feedback), and
\* channelFeedback has exactly the key's channels as keys.
C13_KeyIsAuthoritative ==
    BudgetDone =>
        /\ result = evaluateAllocation(WithoutExtraEntries, correctAnswer)
        /\ DOMAIN result.channelFeedback = DOMAIN correctAnswer
        /\ \A v \in ExtraValues :
               result = evaluateAllocation(WithAllocation(ExtraChannel, v), correctAnswer)

\* C13 witness: an allocation with an entry for a channel the key does not have has
\* been evaluated on the seeded key, and scored as the same allocation without it.
C13_Witness ==
    /\ BudgetDone
    /\ correctAnswer = SeededKey
    /\ ExtraChannel \in DOMAIN userAnswer
    /\ userAnswer[ExtraChannel] = Pct(120)
    /\ WithoutExtraEntries = <<Pct(60), Pct(25), Pct(15)>>
    /\ result.score = 87

---------------------------------------------------------------------------
(* The narrative under the projection score, checked under EvalSpec *)

\* the one narrative string the claim gives an integer score
ClaimedNarrative(score) ==
    IF score >= 90 THEN "Excellent work! Your calculations are spot on."
    ELSE IF score >= 75 THEN "Great job! Minor adjustments in your calculations."
    ELSE IF score >= 60 THEN "Good effort. Review the formulas and try again."
    ELSE "Keep practicing! Focus on understanding each metric formula."

\* C19: for every integer projection score shown in feedback, and for every integer
\* from 0 to 100, exactly one of the four narrative strings is displayed: 'Excellent
\* work! ...' for score >= 90, 'Great job! ...' for 75..89, 'Good effort. ...' for
\* 60..74, 'Keep practicing! ...' below 60.
C19_OneNarrative ==
    ProjectionDone =>
        /\ feedback.score # NaN =>
               narrativeOf(feedback.score) = <<ClaimedNarrative(feedback.score)>>
        /\ \A score \in 0..100 : narrativeOf(score) = <<ClaimedNarrative(score)>>

\* C19 witness: a submission scored exactly 75 shows 'Great job! ...' alone.
C19_Witness ==
    /\ ProjectionDone
    /\ feedback.score = 75
    /\ narrativeOf(feedback.score) = <<"Great job! Minor adjustments in your calculations.">>

---------------------------------------------------------------------------
(* The practice screens: App, BudgetPractice and ProjectionBuilder.

   A handler runs to its first await in one step.  The code after an await is a
   step of its own, taken when the awaited answer arrives; it works with the
   state values the handler captured when it was invoked, and its setState calls
   do nothing once the component has been unmounted. *)

MaxSubmissions == 3     \* submissions made in one run of the app

\* the prop userName
userName == "user"

\* the level buttons of BudgetPractice
Levels == {"Basic", "Intermediate", "Advanced"}

Range(seq) == {seq[i] : i \in DOMAIN seq}

\* the rows of budget_scenarios that a fetch returns
BudgetScenarios ==
    << [id |-> 1, channels |-> <<1, 2>>, answer_key |-> <<Pct(60), Pct(40)>>],
       [id |-> 2, channels |-> <<1, 2>>, answer_key |-> <<Pct(50), Pct(50)>>] >>

\* the rows of projection_scenarios that a fetch returns; the second has no hints
ProjectionScenarios ==
    << [id |-> 1, answers |-> <<50>>, hints |-> <<"hint">>],
       [id |-> 2, answers |-> <<20>>, hints |-> <<>>] >>

\* what the awaited select answers: an error, no rows, or the rows
FetchResponses(rows) ==
    {[error |-> TRUE, data |-> Null], [error |-> FALSE, data |-> <<>>],
     [error |-> FALSE, data |-> rows]}

\* the kind of the answer of the select
responseKind(response) ==
    IF response.error THEN "error" ELSE IF response.data = <<>> THEN "empty" ELSE "rows"

\* what the awaited insert answers
InsertOutcomes == {"ok", "error"}

\* the texts typed into an allocation input and into an answer input
AllocationTexts == {EmptyText, Numeral(50)}
AnswerTexts == {EmptyText, Numeral(20), Numeral(50)}

\* the variables the screens leave alone
idleVars == <<pc, userAnswer, correctAnswer, result, answers>>

InitApp ==
    /\ mode = "home"
    /\ pc = "screen"
    /\ userAnswer = <<>>
    /\ correctAnswer = <<>>
    /\ result = NoResult
    /\ userAnswers = <<>>
    /\ answers = <<>>
    /\ feedback = Null
    /\ AppIdle

\* Home onModeSelect -> App handleModeSelect: the component mounts with its initial
\* state; ProjectionBuilder's mount effect calls loadScenarios at once
onModeSelect(selectedMode) ==
    /\ mode = "home"
    /\ mode' = selectedMode
    /\ loading' = (selectedMode = "projection")
    /\ event' = <<"onModeSelect">>
    /\ UNCHANGED selectedAt
    /\ UNCHANGED <<idleVars, userAnswers, feedback, level, scenarios, currentScenario,
                   allocations, attemptNumber, failedAttempts, showHints, pending,
                   insertCalls, shown>>

\* BudgetPractice: a level button, and the effect on level that calls loadScenarios
Budget_setLevel(lvl) ==
    /\ mode = "budget"
    /\ level = NoLevel
    /\ level' = lvl
    /\ loading' = TRUE
    /\ event' = <<"setLevel">>
    /\ UNCHANGED selectedAt
    /\ UNCHANGED <<idleVars, mode, userAnswers, feedback, scenarios, currentScenario,
                   allocations, attemptNumber, failedAttempts, showHints, pending,
                   insertCalls, shown>>

\* BudgetPractice selectScenario
Budget_selectScenario(scenario) ==
    /\ currentScenario' = scenario
    /\ allocations' = [channel \in Range(scenario.channels) |-> EmptyText]
    /\ feedback' = Null
    /\ attemptNumber' = 1
    /\ shown' = 0
    /\ selectedAt' = Len(insertCalls)

\* ProjectionBuilder selectScenario
Projection_selectScenario(scenario) ==
    /\ currentScenario' = scenario
    /\ userAnswers' = [key \in DOMAIN scenario.answers |-> EmptyText]
    /\ feedback' = Null
    /\ showHints' = <<>>
    /\ attemptNumber' = 1
    /\ failedAttempts' = 0
    /\ shown' = 0
    /\ selectedAt' = Len(insertCalls)

\* BudgetPractice loadScenarios after its await
Budget_loadScenarios ==
    /\ mode = "budget"
    /\ loading
    /\ \E response \in FetchResponses(BudgetScenarios) :
        /\ event' = <<"loadScenarios", responseKind(response)>>
        /\ IF ~response.error
           THEN /\ scenarios' = response.data
                /\ IF Len(response.data) > 0
                   THEN Budget_selectScenario(response.data[1])
                   ELSE UNCHANGED <<currentScenario, allocations, feedback, attemptNumber, shown,
                                    selectedAt>>
           ELSE UNCHANGED <<scenarios, currentScenario, allocations, feedback, attemptNumber,
                            shown, selectedAt>>
    /\ loading' = FALSE
    /\ UNCHANGED <<idleVars, mode, userAnswers, level, failedAttempts, showHints, pending,
                   insertCalls>>

\* ProjectionBuilder loadScenarios after its await
Projection_loadScenarios ==
    /\ mode = "projection"
    /\ loading
    /\ \E response \in FetchResponses(ProjectionScenarios) :
        /\ event' = <<"loadScenarios", responseKind(response)>>
        /\ IF ~response.error
           THEN /\ scenarios' = response.data
                /\ IF Len(response.data) > 0
                   THEN Projection_selectScenario(response.data[1])
                   ELSE UNCHANGED <<currentScenario, userAnswers, feedback, showHints,
                                    attemptNumber, failedAttempts, shown, selectedAt>>
           ELSE UNCHANGED <<scenarios, currentScenario, userAnswers, feedback, showHints,
                            attemptNumber, failedAttempts, shown, selectedAt>>
    /\ loading' = FALSE
    /\ UNCHANGED <<idleVars, mode, level, allocations, pending, insertCalls>>

\* the scenario screen is rendered: not the level buttons, not the spinner, not
\* 'No scenarios available'
ScenarioScreen(m) == mode = m /\ ~loading /\ currentScenario # Null

\* BudgetPractice: onChange of a channel's input (disabled while feedback is shown)
Budget_onChange(channel, text) ==
    /\ ScenarioScreen("budget")
    /\ feedback = Null
    /\ channel \in Range(currentScenario.channels)
    /\ allocations' = [c \in DOMAIN allocations \cup {channel} |->
                          IF c = channel THEN text ELSE allocations[c]]
    /\ event' = <<"onChange">>
    /\ UNCHANGED selectedAt
    /\ UNCHANGED <<idleVars, mode, userAnswers, feedback, level, loading, scenarios,
                   currentScenario, attemptNumber, failedAttempts, showHints, pending,
                   insertCalls, shown>>

\* ProjectionBuilder: onChange of a metric's input (disabled while feedback is shown)
Projection_onChange(key, text) ==
    /\ ScenarioScreen("projection")
    /\ feedback = Null
    /\ key \in DOMAIN currentScenario.answers
    /\ userAnswers' = [k \in DOMAIN userAnswers \cup {key} |->
                          IF k = key THEN text ELSE userAnswers[k]]
    /\ event' = <<"onChange">>
    /\ UNCHANGED selectedAt
    /\ UNCHANGED <<idleVars, mode, feedback, level, loading, scenarios, currentScenario,
                   allocations, attemptNumber, failedAttempts, showHints, pending,
                   insertCalls, shown>>

\* the sum of parseFloat(val) || 0 over the entries with the given keys
RECURSIVE sumOfEntries(_, _)
sumOfEntries(entries, keys) ==
    IF keys = {} THEN 0
    ELSE LET k == CHOOSE x \in keys : TRUE
         IN OrZero(parseFloat(entries[k])) + sumOfEntries(entries, keys \ {k})

\* BudgetPractice getTotalAllocation
getTotalAllocation(allocs) == sumOfEntries(allocs, DOMAIN allocs)

\* totalIsRejected rejecting only a total above 100
totalIsRejected_OnlyAbove(total) == total > 100

\* validateAndSubmit's gate: total !== 100
totalIsRejected(total) == total # 100

\* a submission whose insert has not answered: the values its handler captured
PendingSubmission(fb) ==
    [id |-> Len(insertCalls) + 1, live |-> TRUE, feedback |-> fb,
     failedAttempts |-> failedAttempts]

\* BudgetPractice validateAndSubmit with a total that its gate rejects: the alert,
\* and nothing else.  (The Submit button is disabled for such a total; the gate is
\* the handler's own.)
Budget_validateAndSubmit_Rejected ==
    /\ ScenarioScreen("budget")
    /\ feedback = Null
    /\ totalIsRejected(getTotalAllocation(allocations))
    /\ event' = <<"validateAndSubmit", "rejected">>
    /\ UNCHANGED selectedAt
    /\ UNCHANGED <<idleVars, mode, userAnswers, feedback, level, loading, scenarios,
                   currentScenario, allocations, attemptNumber, failedAttempts, showHints,
                   pending, insertCalls, shown>>

\* BudgetPractice validateAndSubmit up to its await: the evaluation, the progress
\* record and the call of insert
Budget_validateAndSubmit_Accepted ==
    /\ ScenarioScreen("budget")
    /\ feedback = Null
    /\ ~totalIsRejected(getTotalAllocation(allocations))
    /\ Len(insertCalls) < MaxSubmissions
    /\ LET userAllocations ==
               [channel \in DOMAIN allocations |-> OrZero(parseFloat(allocations[channel]))]
           evaluated ==
               evaluateAllocation([channel \in DOMAIN allocations |-> Pct(userAllocations[channel])],
                                  currentScenario.answer_key)
           progress ==
               [user_name |-> userName, scenario_type |-> "budget",
                scenario_id |-> currentScenario.id, score |-> evaluated.score,
                user_answer |-> userAllocations, attempt_number |-> attemptNumber]
       IN /\ insertCalls' = Append(insertCalls, progress)
          /\ pending' = pending \cup {PendingSubmission(evaluated)}
    /\ event' = <<"validateAndSubmit", "accepted">>
    /\ UNCHANGED selectedAt
    /\ UNCHANGED <<idleVars, mode, userAnswers, feedback, level, loading, scenarios,
                   currentScenario, allocations, attemptNumber, failedAttempts, showHints,
                   shown>>

\* ProjectionBuilder allFieldsFilled
allFieldsFilled(uas) == \A key \in DOMAIN uas : uas[key] # EmptyText

\* ProjectionBuilder evaluateAnswers up to its await (the Submit button is
\* disabled unless allFieldsFilled)
Projection_evaluateAnswers ==
    /\ ScenarioScreen("projection")
    /\ feedback = Null
    /\ allFieldsFilled(userAnswers)
    /\ Len(insertCalls) < MaxSubmissions
    /\ LET evaluated == evaluateAnswers(userAnswers, currentScenario.answers)
           numericAnswers ==
               [key \in DOMAIN userAnswers |-> OrZero(parseFloat(userAnswers[key]))]
           progress ==
               [user_name |-> userName, scenario_type |-> "projection",
                scenario_id |-> currentScenario.id, score |-> evaluated.score,
                user_answer |-> numericAnswers, attempt_number |-> attemptNumber]
       IN /\ insertCalls' = Append(insertCalls, progress)
          /\ pending' = pending \cup {PendingSubmission(evaluated)}
    /\ event' = <<"evaluateAnswers">>
    /\ UNCHANGED selectedAt
    /\ UNCHANGED <<idleVars, mode, userAnswers, feedback, level, loading, scenarios,
                   currentScenario, allocations, attemptNumber, failedAttempts, showHints,
                   shown>>

\* feedbackAfterInsert setting the feedback only when the insert succeeded
feedbackAfterInsert_OnlyOnSuccess(outcome, submission) ==
    IF outcome = "ok" THEN submission.feedback ELSE feedback

\* the feedback in state after the insert of a submission has answered
feedbackAfterInsert(outcome, submission) == submission.feedback

\* BudgetPractice validateAndSubmit after its await: setFeedback(result)
Budget_insertResponds(submission, outcome) ==
    /\ mode = "budget"
    /\ submission \in pending
    /\ submission.live
    /\ pending' = pending \ {submission}
    /\ feedback' = feedbackAfterInsert(outcome, submission)
    /\ shown' = submission.id
    /\ event' = <<"insertResponds", outcome>>
    /\ UNCHANGED selectedAt
    /\ UNCHANGED <<idleVars, mode, userAnswers, level, loading, scenarios, currentScenario,
                   allocations, attemptNumber, failedAttempts, showHints, insertCalls>>

\* ProjectionBuilder evaluateAnswers after its await: setFeedback, and
\* setFailedAttempts with the failedAttempts the handler captured
Projection_insertResponds(submission, outcome) ==
    /\ mode = "projection"
    /\ submission \in pending
    /\ submission.live
    /\ pending' = pending \ {submission}
    /\ feedback' = feedbackAfterInsert(outcome, submission)
    /\ failedAttempts' = IF NumLT(submission.feedback.score, 70)
                         THEN submission.failedAttempts + 1
                         ELSE failedAttempts
    /\ shown' = submission.id
    /\ event' = <<"insertResponds", outcome>>
    /\ UNCHANGED selectedAt
    /\ UNCHANGED <<idleVars, mode, userAnswers, level, loading, scenarios, currentScenario,
                   allocations, attemptNumber, showHints, insertCalls>>

\* the insert of a submission answers after its component was unmounted: the
\* setState calls of the continuation do nothing
Unmounted_insertResponds(submission, outcome) ==
    /\ submission \in pending
    /\ ~submission.live
    /\ pending' = pending \ {submission}
    /\ event' = <<"insertResponds", outcome>>
    /\ UNCHANGED selectedAt
    /\ UNCHANGED <<idleVars, mode, userAnswers, feedback, level, loading, scenarios,
                   currentScenario, allocations, attemptNumber, failedAttempts, showHints,
                   insertCalls, shown>>

\* ProjectionBuilder canShowHints
canShowHints == failedAttempts >= 3

\* showHints[key], undefined being falsy
hintShown(key) == key \in DOMAIN showHints /\ showHints[key]

\* ProjectionBuilder toggleHint; its button is rendered when canShowHints and the
\* scenario has a hint for the metric
toggleHint(key) ==
    /\ ScenarioScreen("projection")
    /\ canShowHints
    /\ key \in DOMAIN currentScenario.answers
    /\ key \in DOMAIN currentScenario.hints
    /\ showHints' = [k \in DOMAIN showHints \cup {key} |->
                        IF k = key THEN ~hintShown(key) ELSE showHints[k]]
    /\ event' = <<"toggleHint">>
    /\ UNCHANGED selectedAt
    /\ UNCHANGED <<idleVars, mode, userAnswers, feedback, level, loading, scenarios,
                   currentScenario, allocations, attemptNumber, failedAttempts, pending,
                   insertCalls, shown>>

\* Budget_tryAgain abandoning the submissions whose insert has not answered
Budget_tryAgain_Cancelling ==
    /\ ScenarioScreen("budget")
    /\ feedback # Null
    /\ allocations' = [channel \in Range(currentScenario.channels) |-> EmptyText]
    /\ feedback' = Null
    /\ attemptNumber' = attemptNumber + 1
    /\ pending' = {}
    /\ shown' = 0
    /\ event' = <<"tryAgain">>
    /\ UNCHANGED selectedAt
    /\ UNCHANGED <<idleVars, mode, userAnswers, level, loading, scenarios, currentScenario,
                   failedAttempts, showHints, insertCalls>>

\* BudgetPractice tryAgain; its button is rendered with the feedback
Budget_tryAgain ==
    /\ ScenarioScreen("budget")
    /\ feedback # Null
    /\ allocations' = [channel \in Range(currentScenario.channels) |-> EmptyText]
    /\ feedback' = Null
    /\ attemptNumber' = attemptNumber + 1
    /\ shown' = 0
    /\ event' = <<"tryAgain">>
    /\ UNCHANGED selectedAt
    /\ UNCHANGED <<idleVars, mode, userAnswers, level, loading, scenarios, currentScenario,
                   failedAttempts, showHints, pending, insertCalls>>

\* Projection_tryAgain setting failedAttempts back to 0 as selectScenario does
Projection_tryAgain_ResettingFailedAttempts ==
    /\ ScenarioScreen("projection")
    /\ feedback # Null
    /\ userAnswers' = [key \in DOMAIN currentScenario.answers |-> EmptyText]
    /\ feedback' = Null
    /\ attemptNumber' = attemptNumber + 1
    /\ failedAttempts' = 0
    /\ shown' = 0
    /\ event' = <<"tryAgain">>
    /\ UNCHANGED selectedAt
    /\ UNCHANGED <<idleVars, mode, level, loading, scenarios, currentScenario, allocations,
                   showHints, pending, insertCalls>>

\* ProjectionBuilder tryAgain
Projection_tryAgain ==
    /\ ScenarioScreen("projection")
    /\ feedback # Null
    /\ userAnswers' = [key \in DOMAIN currentScenario.answers |-> EmptyText]
    /\ feedback' = Null
    /\ attemptNumber' = attemptNumber + 1
    /\ shown' = 0
    /\ event' = <<"tryAgain">>
    /\ UNCHANGED selectedAt
    /\ UNCHANGED <<idleVars, mode, level, loading, scenarios, currentScenario, allocations,
                   failedAttempts, showHints, pending, insertCalls>>

\* scenarios.findIndex((s) => s.id === currentScenario?.id), counted from 1
currentIndex == CHOOSE i \in DOMAIN scenarios : scenarios[i].id = currentScenario.id

\* Budget_nextScenario going from the last scenario back to the first
Budget_nextScenario_WrappingAround ==
    /\ ScenarioScreen("budget")
    /\ feedback # Null
    /\ Budget_selectScenario(scenarios[IF currentIndex < Len(scenarios)
                                       THEN currentIndex + 1 ELSE 1])
    /\ event' = <<"nextScenario">>
    /\ UNCHANGED <<idleVars, mode, userAnswers, level, loading, scenarios, failedAttempts,
                   showHints, pending, insertCalls>>

\* BudgetPractice nextScenario; its button is rendered with the feedback unless the
\* scenario is the last one
Budget_nextScenario ==
    /\ ScenarioScreen("budget")
    /\ feedback # Null
    /\ currentIndex < Len(scenarios)
    /\ Budget_selectScenario(scenarios[currentIndex + 1])
    /\ event' = <<"nextScenario">>
    /\ UNCHANGED <<idleVars, mode, userAnswers, level, loading, scenarios, failedAttempts,
                   showHints, pending, insertCalls>>

\* ProjectionBuilder nextScenario
Projection_nextScenario ==
    /\ ScenarioScreen("projection")
    /\ feedback # Null
    /\ currentIndex < Len(scenarios)
    /\ Projection_selectScenario(scenarios[currentIndex + 1])
    /\ event' = <<"nextScenario">>
    /\ UNCHANGED <<idleVars, mode, level, loading, scenarios, allocations, pending,
                   insertCalls>>

\* onBack with the button on every screen but the spinner
onBack_FromAnyScreen ==
    /\ mode # "home"
    /\ ~loading
    /\ mode' = "home"
    /\ userAnswers' = <<>>
    /\ feedback' = Null
    /\ level' = NoLevel
    /\ loading' = FALSE
    /\ scenarios' = <<>>
    /\ currentScenario' = Null
    /\ allocations' = <<>>
    /\ attemptNumber' = 1
    /\ failedAttempts' = 0
    /\ showHints' = <<>>
    /\ pending' = {[submission EXCEPT !.live = FALSE] : submission \in pending}
    /\ shown' = 0
    /\ selectedAt' = 0
    /\ event' = <<"onBack">>
    /\ UNCHANGED <<idleVars, insertCalls>>

\* the Back to Home button -> App handleBackToHome: the component is unmounted and
\* its state is gone; the button is on the level screen and on the scenario screen
onBack ==
    /\ \/ ScenarioScreen("budget")
       \/ ScenarioScreen("projection")
       \/ mode = "budget" /\ level = NoLevel
    /\ mode' = "home"
    /\ userAnswers' = <<>>
    /\ feedback' = Null
    /\ level' = NoLevel
    /\ loading' = FALSE
    /\ scenarios' = <<>>
    /\ currentScenario' = Null
    /\ allocations' = <<>>
    /\ attemptNumber' = 1
    /\ failedAttempts' = 0
    /\ showHints' = <<>>
    /\ pending' = {[submission EXCEPT !.live = FALSE] : submission \in pending}
    /\ shown' = 0
    /\ selectedAt' = 0
    /\ event' = <<"onBack">>
    /\ UNCHANGED <<idleVars, insertCalls>>

\* the names of channels and metrics in the rows
EntryNames == {1, 2}

NextApp ==
    \/ \E selectedMode \in {"budget", "projection"} : onModeSelect(selectedMode)
    \/ \E lvl \in Levels : Budget_setLevel(lvl)
    \/ Budget_loadScenarios
    \/ Projection_loadScenarios
    \/ \E channel \in EntryNames, text \in AllocationTexts : Budget_onChange(channel, text)
    \/ \E key \in EntryNames, text \in AnswerTexts : Projection_onChange(key, text)
    \/ Budget_validateAndSubmit_Rejected
    \/ Budget_validateAndSubmit_Accepted
    \/ Projection_evaluateAnswers
    \/ \E submission \in pending, outcome \in InsertOutcomes :
           Budget_insertResponds(submission, outcome)
    \/ \E submission \in pending, outcome \in InsertOutcomes :
           Projection_insertResponds(submission, outcome)
    \/ \E submission \in pending, outcome \in InsertOutcomes :
           Unmounted_insertResponds(submission, outcome)
    \/ \E key \in EntryNames : toggleHint(key)
    \/ Budget_tryAgain
    \/ Projection_tryAgain
    \/ Budget_nextScenario
    \/ Projection_nextScenario
    \/ onBack

\* The app from its first render, with every order of clicks and answers
AppSpec == InitApp /\ [][NextApp]_vars

\* the awaited insert of some submission answers and its continuation runs
InsertAnswers ==
    \E submission \in pending, outcome \in InsertOutcomes :
        \/ Budget_insertResponds(submission, outcome)
        \/ Projection_insertResponds(submission, outcome)
        \/ Unmounted_insertResponds(submission, outcome)

\* AppSpec where every insert is answered in the end and the event loop then runs
\* the continuation; the user may stop clicking at any time
FairAppSpec == AppSpec /\ WF_vars(InsertAnswers)

---------------------------------------------------------------------------
(* Claims about the screens, checked under AppSpec *)

\* the entered allocations summed as the claim words it: an empty entry counts as 0
RECURSIVE ClaimedSum(_, _)
ClaimedSum(entries, keys) ==
    IF keys = {} THEN 0
    ELSE LET k == CHOOSE x \in keys : TRUE
         IN (IF entries[k] = EmptyText THEN 0 ELSE entries[k][1])
            + ClaimedSum(entries, keys \ {k})

ClaimedTotal == ClaimedSum(allocations, DOMAIN allocations)

\* the submissions whose insert has not answered, by number
PendingIds == {submission.id : submission \in pending}

\* C12: a budget submit whose entered allocations (empty counted as 0) do not sum to
\* exactly 100 is rejected before evaluation: it hands no progress record to insert,
\* starts no submission, and leaves feedback (absent), the attempt number and the
\* entered allocations as they were; every budget submit that is accepted has a
\* total of exactly 100.
C12_RejectedBeforeEvaluation ==
    [][/\ (mode = "budget" /\ ClaimedTotal # 100) =>
              (insertCalls' = insertCalls /\ PendingIds' \subseteq PendingIds)
       /\ event' = <<"validateAndSubmit", "rejected">> =>
              /\ ClaimedTotal # 100
              /\ feedback = Null /\ feedback' = Null
              /\ UNCHANGED <<insertCalls, pending, attemptNumber, allocations, shown>>
       /\ event' = <<"validateAndSubmit", "accepted">> => ClaimedTotal = 100]_vars

\* C12 witness: a submit with a total of 50 has been rejected, nothing was handed to
\* insert and no feedback is shown.
C12_Witness ==
    /\ event = <<"validateAndSubmit", "rejected">>
    /\ ClaimedTotal = 50
    /\ insertCalls = <<>>
    /\ pending = {}
    /\ feedback = Null

\* the records handed to insert since the current scenario was selected
RecordsOfSelection == {i \in DOMAIN insertCalls : i > selectedAt}

\* those of them with a score below 70
LowRecordsOfSelection == {i \in RecordsOfSelection : NumLT(insertCalls[i].score, 70)}

\* C14: in the projection mode, once three submissions scoring below 70 have been
\* made on the selected scenario and every insert has answered, the hint toggle is
\* offered (canShowHints), also when submissions overlapped while an insert was
\* pending.
C14_HintsAfterThreeLow ==
    (ScenarioScreen("projection") /\ Cardinality(LowRecordsOfSelection) >= 3 /\ pending = {})
        => canShowHints

\* a step in which an accepted submit ran
SubmitStep ==
    event' \in {<<"validateAndSubmit", "accepted">>, <<"evaluateAnswers">>}
    /\ insertCalls' # insertCalls

\* C15: every accepted submission hands exactly one progress record to insert, and
\* nothing else does; its attempt_number is a positive integer, 1 for the first
\* submission after a scenario is selected; attemptNumber grows by exactly 1 with
\* each tryAgain; the score of the record is the score shown in the feedback of
\* that submission.
C15_OneRecordPerSubmission ==
    [][/\ insertCalls' # insertCalls =>
              /\ SubmitStep
              /\ Len(insertCalls') = Len(insertCalls) + 1
              /\ SubSeq(insertCalls', 1, Len(insertCalls)) = insertCalls
              /\ insertCalls'[Len(insertCalls')].attempt_number \in Nat \ {0}
              /\ RecordsOfSelection = {} =>
                     insertCalls'[Len(insertCalls')].attempt_number = 1
       /\ event' = <<"tryAgain">> => attemptNumber' = attemptNumber + 1
       /\ shown' # 0 => feedback'.score = insertCalls'[shown'].score]_vars

\* C16: when the insert of a submission of the mounted component answers with an
\* error, the feedback computed by that submission is displayed all the same, as
\* after a success: no record is handed to insert again and no state of the
\* component other than the feedback (and failedAttempts) changes.
C16_FeedbackDespiteFailure ==
    [][\A submission \in pending :
          (event' = <<"insertResponds", "error">> /\ submission \notin pending'
           /\ submission.live)
          => /\ feedback' = submission.feedback
             /\ feedback' # Null
             /\ feedback'.score = insertCalls[submission.id].score
             /\ shown' = submission.id
             /\ UNCHANGED <<insertCalls, mode, loading, currentScenario, scenarios,
                            attemptNumber, allocations, userAnswers, showHints>>]_vars

\* C16 witness: the insert of submission 1 has answered with an error and the
\* feedback of submission 1 is displayed.
C16_Witness ==
    /\ event = <<"insertResponds", "error">>
    /\ shown = 1
    /\ feedback # Null
    /\ feedback.score = insertCalls[1].score
    /\ Len(insertCalls) = 1
    /\ pending = {}

\* 'No scenarios available' is rendered
NoScenariosScreen ==
    /\ mode \in {"budget", "projection"}
    /\ mode = "budget" => level # NoLevel
    /\ ~loading
    /\ currentScenario = Null

\* C17: when the scenario fetch answers with an error or with no rows, loading ends
\* with no current scenario and an empty scenario list ('No scenarios available');
\* from that screen no step changes the screen, evaluates or hands a record to insert.
C17_NoScenarios ==
    [][/\ event' \in {<<"loadScenarios", "error">>, <<"loadScenarios", "empty">>} =>
              (~loading' /\ currentScenario' = Null /\ scenarios' = <<>> /\ NoScenariosScreen')
       /\ NoScenariosScreen =>
              /\ NoScenariosScreen'
              /\ scenarios' = <<>>
              /\ feedback' = Null
              /\ insertCalls' = insertCalls
              /\ PendingIds' \subseteq PendingIds]_vars

\* C17 witness: the budget fetch has answered with an error after an earlier visit
\* handed a record to insert, and 'No scenarios available' is rendered.
C17_Witness ==
    /\ event = <<"loadScenarios", "error">>
    /\ NoScenariosScreen
    /\ mode = "budget"
    /\ scenarios = <<>>
    /\ Len(insertCalls) = 1

---------------------------------------------------------------------------
(* Completion of a submission, checked under FairAppSpec *)

\* C18 as worded: after an accepted submit whose insert answers in the end, the
\* feedback of that submission is displayed in the end.
C18_FeedbackEventuallyDisplayed ==
    \A id \in 1..MaxSubmissions : (id \in PendingIds) ~> (shown = id)

\* C18 amended: a started submission stays pending until its insert answers; nothing
\* but onBack, which unmounts its component, takes the display away from it; when
\* its insert answers while its component is mounted, that step displays the
\* feedback of that submission.
C18_RunsToCompletion ==
    [][\A submission \in pending :
          \/ submission \in pending'
          \/ /\ event' = <<"onBack">>
             /\ [submission EXCEPT !.live = FALSE] \in pending'
          \/ /\ event'[1] = "insertResponds"
             /\ submission.id \notin PendingIds'
             /\ submission.live =>
                    (feedback' = submission.feedback /\ shown' = submission.id)]_vars

\* C18 witness: two submissions overlapped, the second one's insert answered last and
\* its feedback is displayed.
C18_Witness ==
    /\ event[1] = "insertResponds"
    /\ Len(insertCalls) = 2
    /\ pending = {}
    /\ shown = 2
    /\ feedback # Null
    /\ feedback.score = insertCalls[2].score

---------------------------------------------------------------------------
(* Hints of the projection mode, checked under AppSpec *)

\* C20: in the projection mode, a hint is shown (showHints[key] = true for some key)
\* only when failedAttempts >= 3, and failedAttempts never exceeds the number of
\* records with a score below 70 handed to insert since the current scenario was
\* selected.
C20_HintsOnlyAfterThreeLow ==
    mode = "projection" =>
        /\ (\E key \in DOMAIN showHints : hintShown(key)) => failedAttempts >= 3
        /\ failedAttempts <= Cardinality(LowRecordsOfSelection)

---------------------------------------------------------------------------
(* Submissions, retries and scenario changes, checked under AppSpec *)

\* C21: within one scenario selection at most one progress record is handed to
\* insert per attempt number: no second submit starts between the start of a
\* submission and the following tryAgain, the time its insert is awaited included.
C21_OneRecordPerAttempt ==
    \A i, j \in RecordsOfSelection :
        i # j => insertCalls[i].attempt_number # insertCalls[j].attempt_number

\* every input of the scenario screen is empty
AllEntriesEmpty(entries, names) ==
    DOMAIN entries = names /\ \A name \in names : entries[name] = EmptyText

\* C22: tryAgain clears the feedback and every entered answer and raises the attempt
\* number by exactly 1; it leaves the current scenario, the scenario list and, in the
\* projection mode, failedAttempts and the opened hints as they were, so hints that
\* were revealable before the retry are revealable after it.
C22_TryAgainFrame ==
    [][event' = <<"tryAgain">> =>
          /\ feedback # Null /\ feedback' = Null
          /\ attemptNumber' = attemptNumber + 1
          /\ UNCHANGED <<mode, currentScenario, scenarios, failedAttempts, showHints,
                         insertCalls, pending>>
          /\ mode = "budget" =>
                 AllEntriesEmpty(allocations', Range(currentScenario.channels))
          /\ mode = "projection" =>
                 /\ AllEntriesEmpty(userAnswers', DOMAIN currentScenario.answers)
                 /\ canShowHints => canShowHints']_vars

\* C22 witness: the third retry of a projection scenario after three low submissions:
\* the hint that was opened is still open, hints are still revealable, the inputs are
\* empty and the attempt number is 4.
C22_Witness ==
    /\ event = <<"tryAgain">>
    /\ mode = "projection"
    /\ attemptNumber = 4
    /\ failedAttempts = 3
    /\ canShowHints
    /\ hintShown(1)
    /\ feedback = Null
    /\ AllEntriesEmpty(userAnswers, DOMAIN currentScenario.answers)

\* C23: nextScenario moves to the scenario at the next index of the fetched list and
\* resets the state kept per scenario (attempt number 1, no feedback, every answer
\* empty, and in the projection mode failedAttempts 0 and every hint closed); at the
\* last scenario nothing moves on; while a component is mounted the index of its
\* current scenario never decreases.
C23_NextScenario ==
    [][/\ event' = <<"nextScenario">> =>
              /\ currentIndex < Len(scenarios)
              /\ scenarios' = scenarios
              /\ currentScenario' = scenarios[currentIndex + 1]
              /\ attemptNumber' = 1
              /\ feedback' = Null
              /\ mode' = mode
              /\ mode = "budget" =>
                     AllEntriesEmpty(allocations', Range(currentScenario'.channels))
              /\ mode = "projection" =>
                     /\ AllEntriesEmpty(userAnswers', DOMAIN currentScenario'.answers)
                     /\ failedAttempts' = 0
                     /\ \A key \in EntryNames : ~(key \in DOMAIN showHints' /\ showHints'[key])
       /\ (currentScenario # Null /\ currentScenario' # Null) =>
              /\ currentIndex' >= currentIndex
              /\ currentIndex = Len(scenarios) => currentScenario' = currentScenario]_vars

\* C23 witness: after three submissions on the first projection scenario the user
\* moved to the second one, which is the last: its state is reset.
C23_Witness ==
    /\ event = <<"nextScenario">>
    /\ mode = "projection"
    /\ currentIndex = 2
    /\ currentIndex = Len(scenarios)
    /\ selectedAt = 3
    /\ attemptNumber = 1
    /\ failedAttempts = 0
    /\ showHints = <<>>
    /\ feedback = Null

---------------------------------------------------------------------------
(* The range of the projection score, checked under ManyMetricsSpec *)

\* every metric of the key has been given deviation 0
EveryDeviationZero ==
    \A key \in DOMAIN answers :
        /\ feedback.results[key].deviation.den > 0
        /\ feedback.results[key].deviation.num = 0

\* C24: for every answer key with at least one metric and every submission the
\* projection score is an integer in 25..100, and it is 100 only when every metric
\* has deviation 0.
C24_ScoreRange ==
    (ProjectionDone /\ NumMetrics > 0) =>
        /\ feedback.score \in 25..100
        /\ feedback.score = 100 => EveryDeviationZero

\* C24 as amended: the score is an integer in 25..100; it is 100 only when the
\* contributions fall short of 100 a metric by at most half the number of metrics in
\* total, hence, for a key of fewer than 10 metrics, only when every metric has
\* deviation 0.
C24_ScoreRangeOfRoundedMean ==
    (ProjectionDone /\ NumMetrics > 0) =>
        /\ feedback.score \in 25..100
        /\ feedback.score = 100 =>
               /\ 2 * (100 * NumMetrics - SumClaimedContributions(DOMAIN answers))
                      <= NumMetrics
               /\ NumMetrics < 10 => EveryDeviationZero

\* C24 witness: ten metrics, nine exact and the first 5 percent off, have been scored
\* round(995 / 10) = 100.
C24_Witness ==
    /\ ProjectionDone
    /\ NumMetrics = 10
    /\ userAnswers[1] = Numeral(21)
    /\ feedback.results[1].deviation.num = 5 * feedback.results[1].deviation.den
    /\ \A key \in 2..10 : feedback.results[key].deviation.num = 0
    /\ feedback.score = 100

====
